---- MODULE Spec2Model ----
(***************************************************************************)
(* A model of the AEM component builder (gowtham432/AEM_AI_Agent): the     *)
(* four scripts ai_agent.py, ai_agent_new.py, ai_agent_new_2.py and        *)
(* ai_agent_new_4.py.  Each script builds or loads a persistent Chroma     *)
(* collection from the knowledge files, then serves Gradio callbacks that  *)
(* keep a field list and generate code with retrieved context.             *)
(*                                                                         *)
(* Conventions of the model.                                               *)
(*  - A Python str that the program only slices is identified with its     *)
(*    length; a slice text[a:b] is the half-open interval of positions it  *)
(*    takes, [lo, hi), clamped to the text as Python clamps it.            *)
(*  - A Python str that the program inspects or builds is a sequence of    *)
(*    tokens; the empty str is the empty sequence <<>>.  A token is one    *)
(*    character (" " is whitespace) or one literal fragment of a message.  *)
(*    Message literals are written in ASCII, without their emoji.          *)
(*  - collection.add, collection.query and the chat completion are calls   *)
(*    to collaborators: each either returns or raises, chosen by \E.       *)
(***************************************************************************)
EXTENDS Integers, Sequences, FiniteSets, TLC

VARIABLES
    variant,        \* which of the four scripts is running
    files,          \* the knowledge files on disk: name -> [exists, len]
    collection,     \* the persistent Chroma collection "aem_rag_store": a set of documents
    build,          \* the last call of build_or_load_chroma: what it saw and what it did
    refs,           \* the module-level reference texts dialog_template, sling_mappings, htl_snippets
    hash_order,     \* the order in which this process iterates a set of field types
    fields_data,    \* the module-level field list
    extra_context,  \* the module-level extra context
    field_list,     \* the Markdown component that displays the fields, of each session
    status,         \* the Markdown component that displays the last status, of each session
    context_status, \* the Markdown component that displays the answer of set_context_chat, of each session
    gen,            \* the last call of generate_sling_model_with_rag: inputs, calls made, result
    procs           \* two processes that start on one database directory: where each is in build_or_load_chroma

vars == <<variant, files, collection, build, refs, hash_order, fields_data, extra_context,
          field_list, status, context_status, gen, procs>>

\* the browser sessions that are served by one process
Sessions == {"s1", "s2"}

(***************************************************************************)
(* Bounds of the model.                                                    *)
(***************************************************************************)
MaxTextLen == 1500     \* longest knowledge text when a single source is chunked
LenStep == 750         \* knowledge texts of the index specification are multiples of it
MaxLenSteps == 1       \* ... up to MaxLenSteps * LenStep characters
MaxBuildCalls == 3     \* calls of build_or_load_chroma (runs of the script) in one behaviour
MaxFields == 2         \* longest field list
RawLenStep == 300      \* malformed generator outputs have a multiple of it as length
MaxRawSteps == 2       \* ... up to MaxRawSteps * RawLenStep characters

(***************************************************************************)
(* Program constants.                                                      *)
(***************************************************************************)
chunk_size == 800
overlap == 100

Variants == {"ai_agent", "ai_agent_new", "ai_agent_new_2", "ai_agent_new_4"}

\* files_map, in insertion order (the order dict.items() iterates in)
files_map(v) ==
    IF v = "ai_agent_new_4"
    THEN <<"dialog_template", "fields_catalog", "sling_examples", "htl_snippets">>
    ELSE <<"dialog_template", "fields_catalog", "sling_examples", "htl_snippets",
           "js_validation">>

SourceNames(v) == {files_map(v)[k] : k \in 1..Len(files_map(v))}

Min(a, b) == IF a < b THEN a ELSE b

\* the types of the dropdown that the model uses
FieldTypeChoices == {"Text Field", "Multifield"}

\* All orders in which a set of strings can be iterated.  The hash of a str is
\* salted per process, so the order is fixed within one run of the script and
\* open from one run to the next.
SetOrders(S) ==
    {o \in [1..Cardinality(S) -> S] : \A i, j \in 1..Cardinality(S) : i # j => o[i] # o[j]}

(***************************************************************************)
(* Document Indexer: build_or_load_chroma.                                 *)
(***************************************************************************)

\* range(start, stop, step) of Python, as the list of its values
RECURSIVE PyRange(_, _, _)
PyRange(start, stop, step) ==
    IF start >= stop THEN <<>> ELSE <<start>> \o PyRange(start + step, stop, step)

\* text[a:b] for a text of length L and 0 <= a <= b: the positions lo .. hi-1
Slice(L, a, b) == [lo |-> Min(a, L), hi |-> Min(b, L)]

ChunkStepWide == chunk_size + overlap
ChunkStepNarrow == chunk_size - 2 * overlap
\* the step of the chunk offsets: chunk_size - overlap
ChunkStep == chunk_size - overlap

\* chunks = [text[i:i+chunk_size] for i in range(0, len(text), chunk_size - overlap)]
ChunkText(L) ==
    LET starts == PyRange(0, L, ChunkStep)
    IN  [k \in 1..Len(starts) |-> Slice(L, starts[k], starts[k] + chunk_size)]

ChunkIdOfSource(name, i) == name \o "_0"
\* f"{name}_{i}"
ChunkId(name, i) == name \o "_" \o ToString(i)

\* the documents one source adds: for i, chunk in enumerate(chunks)
SourceDocs(name, L) ==
    LET chunks == ChunkText(L)
    IN  [k \in 1..Len(chunks) |->
            [id |-> ChunkId(name, k - 1), source |-> name,
             lo |-> chunks[k].lo, hi |-> chunks[k].hi]]

PathExistsAlways(fs, name) == TRUE
\* os.path.exists(path)
PathExists(fs, name) == fs[name].exists

\* open(path).read(): FileNotFoundError when the file is not there
OpenRead(fs, name) ==
    IF fs[name].exists THEN [ok |-> TRUE, len |-> fs[name].len]
                       ELSE [ok |-> FALSE, len |-> 0]

\* The loop over files_map.items() from entry k on: the add calls it issues, in
\* order, and whether it ends by an exception of open().
RECURSIVE BuildLoop(_, _, _)
BuildLoop(names, fs, k) ==
    IF k > Len(names) THEN [raised |-> FALSE, plan |-> <<>>]
    ELSE IF ~PathExists(fs, names[k]) THEN BuildLoop(names, fs, k + 1)
    ELSE LET r == OpenRead(fs, names[k])
         IN  IF ~r.ok THEN [raised |-> TRUE, plan |-> <<>>]
             ELSE LET rest == BuildLoop(names, fs, k + 1)
                  IN  [raised |-> rest.raised,
                       plan |-> SourceDocs(names[k], r.len) \o rest.plan]

\* collection.add of one document; an id the collection already holds is not added again
Add(coll, doc) ==
    IF \E d \in coll : d.id = doc.id THEN coll ELSE coll \cup {doc}

RECURSIVE AddAll(_, _)
AddAll(coll, docs) ==
    IF docs = <<>> THEN coll ELSE AddAll(Add(coll, Head(docs)), Tail(docs))

\* collection.count()
Count(coll) == Cardinality(coll)

\* the documents of source n in the collection
DocsOf(coll, n) == {d \in coll : d.source = n}

HasChunksNever(coll) == FALSE
\* if collection.count() > 0: return collection
HasChunks(coll) == Count(coll) > 0

\* the call returned the collection (it did not raise)
Returned(outcome) == outcome \in {"built", "loaded"}

NoBuild == [calls |-> 0, outcome |-> "none", prev |-> "none", adds |-> 0, before |-> {}]

\* file.read() of a reference file: the text of a file is named by its source
RefText(fs, name) == IF fs[name].len = 0 THEN <<>> ELSE <<"text of " \o name>>

NoRefs == [dialog_template |-> <<>>, sling_mappings |-> <<>>, htl_snippets |-> <<>>]

\* The module-level try block that reads dialog_template.txt, sling_mappings.txt
\* (the source "sling_examples") and htl_snippets.txt: one FileNotFoundError
\* sets the three texts to "".
LoadReferences(fs) ==
    IF /\ OpenRead(fs, "dialog_template").ok
       /\ OpenRead(fs, "sling_examples").ok
       /\ OpenRead(fs, "htl_snippets").ok
    THEN [dialog_template |-> RefText(fs, "dialog_template"),
          sling_mappings |-> RefText(fs, "sling_examples"),
          htl_snippets |-> RefText(fs, "htl_snippets")]
    ELSE NoRefs

\* Two processes that run build_or_load_chroma on one database directory
\* (ai_agent_new.py and ai_agent_new_2.py have the same CHROMA_DB_DIR and the
\* same collection name, and so have two runs of one script).
Procs == {"p1", "p2"}

\* a process before its call of build_or_load_chroma
NotStarted == [pc |-> "start", plan |-> <<>>, adds |-> 0]
NoProcs == [p \in Procs |-> NotStarted]

\* the value of field_list when the page loads
NoFieldsYet == <<"### Fields Added\n_(No fields added yet)_">>

\* One run of the script up to the launch of the interface: the module-level
\* state is fresh, build_or_load_chroma is called once and, when it returns, the
\* reference texts are read.  The Similarity Index may raise in any add: okAdds
\* is the number of adds that return.
\* outcome: "loaded" (returned the existing collection), "built" (returned the new
\* one), "add_raised" (an add raised), "open_raised" (open() raised).
BuildOrLoad ==
    /\ build.calls < MaxBuildCalls
    /\ hash_order' \in SetOrders(FieldTypeChoices)
    /\ IF HasChunks(collection)
       THEN /\ collection' = collection
            /\ build' = [calls |-> build.calls + 1, outcome |-> "loaded",
                         prev |-> build.outcome, adds |-> 0, before |-> collection]
       ELSE LET loop == BuildLoop(files_map(variant), files, 1)
            IN  \E okAdds \in 0..Len(loop.plan) :
                    /\ collection' = AddAll(collection, SubSeq(loop.plan, 1, okAdds))
                    /\ build' = [calls |-> build.calls + 1,
                                 outcome |-> IF okAdds < Len(loop.plan) THEN "add_raised"
                                             ELSE IF loop.raised THEN "open_raised"
                                             ELSE "built",
                                 prev |-> build.outcome,
                                 adds |-> Min(okAdds + 1, Len(loop.plan)),
                                 before |-> collection]
    /\ refs' = IF Returned(build'.outcome) THEN LoadReferences(files) ELSE NoRefs
    /\ fields_data' = <<>>
    /\ extra_context' = <<>>
    /\ field_list' = [s \in Sessions |-> NoFieldsYet]
    /\ status' = [s \in Sessions |-> <<>>]
    /\ context_status' = [s \in Sessions |-> <<>>]
    /\ UNCHANGED <<variant, files, gen, procs>>

\* build_or_load_chroma in process p, one call to the shared collection per
\* step.  CountStep: get_or_create_collection and collection.count(); with a
\* count above 0 the call returns, else it goes on to the loop over files_map.
CountStep(p) ==
    /\ procs[p].pc = "start"
    /\ procs' = [procs EXCEPT ![p] =
                    IF HasChunks(collection)
                    THEN [pc |-> "loaded", plan |-> <<>>, adds |-> 0]
                    ELSE [pc |-> "building",
                          plan |-> BuildLoop(files_map(variant), files, 1).plan,
                          adds |-> 0]]
    /\ UNCHANGED <<variant, files, collection, build, refs, hash_order, fields_data,
                   extra_context, field_list, status, context_status, gen>>

\* the next collection.add of the loop in process p
AddStep(p) ==
    /\ procs[p].pc = "building"
    /\ procs[p].adds < Len(procs[p].plan)
    /\ collection' = Add(collection, procs[p].plan[procs[p].adds + 1])
    /\ procs' = [procs EXCEPT ![p].adds = @ + 1]
    /\ UNCHANGED <<variant, files, build, refs, hash_order, fields_data,
                   extra_context, field_list, status, context_status, gen>>

\* the loop of process p is over: return collection
ReturnStep(p) ==
    /\ procs[p].pc = "building"
    /\ procs[p].adds = Len(procs[p].plan)
    /\ procs' = [procs EXCEPT ![p].pc = "built"]
    /\ UNCHANGED <<variant, files, collection, build, refs, hash_order, fields_data,
                   extra_context, field_list, status, context_status, gen>>

(***************************************************************************)
(* Multi-Query Retriever: retrieve_targeted_context.                       *)
(***************************************************************************)

\* the keys of all_retrieved
BundleKeys(v) ==
    IF v = "ai_agent_new_4"
    THEN {"dialog_context", "sling_context", "htl_context", "fields_context"}
    ELSE {"dialog_context", "sling_context", "htl_context", "js_context", "fields_context"}

TOP_K == 10

\* str.lower() of one word of the user context
Lower(w) ==
    CASE w = "Title" -> "title"
      [] w = "Required" -> "required"
      [] w = "Validation" -> "validation"
      [] w = "Items" -> "items"
      [] w = "Data" -> "data"
      [] w = "Tab" -> "tab"
      [] OTHER -> w

\* keyword in user_context.lower(), for a one-word keyword: the context is a
\* sequence of words and the keyword is found as one of them
ContainsWord(ctx, kw) == \E i \in 1..Len(ctx) : Lower(ctx[i]) = kw

FieldTypes(fields) == {fields[i].type : i \in 1..Len(fields)}

\* the field types as a list: [f['type'] for f in fields]
TypeList(fields) == [i \in 1..Len(fields) |-> fields[i].type]

\* The types as the script joins them into its query texts: the list of the
\* fields' types in ai_agent.py, " ".join(field_types_set) in the other scripts,
\* which joins the set in the iteration order ho of the process.
TypeOrder(v, fields, ho) ==
    IF v = "ai_agent" THEN TypeList(fields)
    ELSE SelectSeq(ho, LAMBDA t : t \in FieldTypes(fields))

\* has_multifield = "Multifield" in field_types_set
HasMultifield(fields) == "Multifield" \in FieldTypes(fields)

NeedsJsValidationOnly(v, fields, ctx) ==
    ContainsWord(ctx, "validation") \/ HasMultifield(fields)
\* the condition of query 5, the JS validation query
NeedsJs(v, fields, ctx) ==
    CASE v = "ai_agent" ->
            \/ \E i \in 1..Len(fields) :
                  fields[i].type \in {"Multifield", "Tags picker", "Drop down Field"}
            \/ ContainsWord(ctx, "validation")
      [] v \in {"ai_agent_new", "ai_agent_new_2"} ->
            \/ ContainsWord(ctx, "validation")
            \/ ContainsWord(ctx, "validate")
            \/ ContainsWord(ctx, "required")
            \/ HasMultifield(fields)
      [] OTHER -> FALSE

Query(domain, n, text) == [domain |-> domain, n |-> n, text |-> text]

\* The queries one call of retrieve_targeted_context issues when none raises, in
\* the order of the code; types is the order in which the field types are joined.
QueryPlan(v, fields, ctx, types) ==
    IF v = "ai_agent"
    THEN <<Query("dialog_context", TOP_K,
                 <<"dialog XML structure example granite ui form fields tabs">> \o types),
           Query("sling_context", TOP_K,
                 <<"Sling Model Java @Model @ValueMapValue annotations example">> \o types),
           Query("htl_context", TOP_K,
                 <<"HTL template data-sly-use Sling Model example">> \o types),
           Query("fields_context", TOP_K,
                 <<"field types examples">> \o types
                    \o <<"sling:resourceType granite properties">>)>>
         \o (IF NeedsJs(v, fields, ctx)
             THEN <<Query("js_context", 5,
                          <<"JavaScript validation example clientlib">> \o types)>>
             ELSE <<>>)
    ELSE <<Query("dialog_context", 5,
                 <<"dialog XML granite ui container tabs items structure">>),
           Query("sling_context", 8,
                 <<"Sling Model @Model adaptables DefaultInjectionStrategy @ValueMapValue @Default complete class">>
                    \o (IF HasMultifield(fields)
                        THEN <<IF v = "ai_agent_new"
                               THEN " @ChildResource List composite multifield"
                               ELSE " @ChildResource @PostConstruct ValueMap POJO inner class ArrayList multifield composite">>
                        ELSE <<>>)),
           Query("htl_context", 5, <<"HTL data-sly-use model property access syntax">>)>>
         \o (IF types # <<>>
             THEN <<Query("fields_context", 8,
                          types \o <<"sling:resourceType granite field properties">>)>>
             ELSE <<>>)
         \o (IF NeedsJs(v, fields, ctx)
             THEN <<Query("js_context", 3,
                          <<"JavaScript clientlib validation coral foundation">>)>>
             ELSE <<>>)

\* The ranking of the Similarity Index, taken as one fixed order of the documents
\* (by source in files_map order, then by offset): the model does not embed text.
RECURSIVE ByOffset(_)
ByOffset(S) ==
    IF S = {} THEN <<>>
    ELSE LET d == CHOOSE x \in S : \A y \in S : x.lo <= y.lo
         IN  <<d>> \o ByOffset(S \ {d})

RECURSIVE RankedFrom(_, _, _)
RankedFrom(names, coll, k) ==
    IF k > Len(names) THEN <<>>
    ELSE ByOffset(DocsOf(coll, names[k])) \o RankedFrom(names, coll, k + 1)

\* collection.query(query_texts=[q], n_results=n).get("documents", [[]])[0]
\* for the ranking ranked of the collection
QueryDocs(ranked, n) == SubSeq(ranked, 1, Min(n, Len(ranked)))

\* "\n\n".join(docs) if docs else "": a chunk's text is named by the chunk's id
RECURSIVE JoinDocs(_)
JoinDocs(docs) ==
    IF docs = <<>> THEN <<>>
    ELSE IF Len(docs) = 1 THEN <<docs[1].id>>
    ELSE <<docs[1].id, "\n\n">> \o JoinDocs(Tail(docs))

EmptyBundlePlaceholders(v) == [k \in BundleKeys(v) |-> <<"No results">>]
\* all_retrieved as it is initialised: every key with the empty str
EmptyBundle(v) == [k \in BundleKeys(v) |-> <<>>]

IssuedQueriesAll(plan, fault) == plan
\* The queries that are issued when the fault-th query raises (fault = 0: none
\* raises): the try block is left at the first exception.
IssuedQueries(plan, fault) ==
    IF fault = 0 THEN plan ELSE SubSeq(plan, 1, fault)

\* all_retrieved after the queries that returned
Retrieved(v, ranked, plan, fault) ==
    LET issued == IssuedQueries(plan, fault)
        ok == {i \in 1..Len(issued) : i # fault}
    IN  [k \in BundleKeys(v) |->
            IF \E i \in ok : issued[i].domain = k
            THEN LET i == CHOOSE j \in ok : issued[j].domain = k
                 IN  JoinDocs(QueryDocs(ranked, issued[i].n))
            ELSE <<>>]

BundleOnFailureKeep(v, partial) == partial
\* except Exception: return the dictionary of empty strings
BundleOnFailure(v, partial) == EmptyBundle(v)

\* the value retrieve_targeted_context returns
Bundle(v, ranked, plan, fault) ==
    IF fault = 0 THEN Retrieved(v, ranked, plan, fault)
    ELSE BundleOnFailure(v, Retrieved(v, ranked, plan, fault))

\* the calls to the Similarity Index, as they appear in the trace of a call
QueryCalls(plan, fault) ==
    LET issued == IssuedQueries(plan, fault)
    IN  [i \in 1..Len(issued) |->
            [call |-> "query", domain |-> issued[i].domain, n |-> issued[i].n,
             text |-> issued[i].text, raised |-> (i = fault)]]

GeneratorCall == [call |-> "generator", domain |-> "", n |-> 0, text |-> <<>>, raised |-> FALSE]

CallTraceWithRetry(plan, fault, out) ==
    QueryCalls(plan, fault)
        \o (IF out.t = "raise" THEN <<GeneratorCall, GeneratorCall>> ELSE <<GeneratorCall>>)
\* The calls of one generate_sling_model_with_rag call that got past the check
\* of the fields: the queries of retrieve_targeted_context, then, after
\* full_prompt is built, the one client.chat.completions.create.
CallTrace(plan, fault, out) == QueryCalls(plan, fault) \o <<GeneratorCall>>

(***************************************************************************)
(* Prompt Assembler: generate_sling_model_with_rag.                        *)
(***************************************************************************)

Arity(v) == IF v = "ai_agent_new_4" THEN 3 ELSE 4

IsSpace(c) == c \in {" ", "\n", "\t"}

\* str.strip()
RECURSIVE LStrip(_)
LStrip(s) == IF s # <<>> /\ IsSpace(Head(s)) THEN LStrip(Tail(s)) ELSE s
RECURSIVE RStrip(_)
RStrip(s) ==
    IF s # <<>> /\ IsSpace(s[Len(s)]) THEN RStrip(SubSeq(s, 1, Len(s) - 1)) ELSE s
Strip(s) == RStrip(LStrip(s))

TupleNoPadding(v, lead) == lead
\* a tuple of the script's arity: the given leading elements, then empty strings
Tuple(v, lead) == [i \in 1..Arity(v) |-> IF i <= Len(lead) THEN lead[i] ELSE <<>>]

MsgNoFields == <<"Please add at least one field before generating.">>
MsgFailedDialog == <<"Failed to generate dialog">>
MsgFailedSling == <<"Failed to generate Sling Model">>
MsgFailedHtl == <<"Failed to generate HTL">>
MsgJsonError == <<"JSON parsing error: ", "<JSONDecodeError>", "\n\nRaw output:\n">>
MsgError(e) == <<"Error generating code: ", e>>

NoFieldsNever(fields) == FALSE
\* if not fields
NoFields(fields) == fields = <<>>

RawPreviewLen == 500

RawPreviewAll(raw) == raw
\* ai_output[:500]
RawPreview(raw) == SubSeq(raw, 1, Min(RawPreviewLen, Len(raw)))

GetNoDefault(rec, key) == rec[key]
\* parsed.get(key, ""): the value of the key, the default when the key is absent
Get(rec, key) == IF rec[key].t = "absent" THEN [t |-> "str", s |-> <<>>] ELSE rec[key]

\* the keys the script reads from the parsed record
ReadKeys(v) ==
    IF v = "ai_agent_new_4" THEN <<"dialog", "sling_model", "htl">>
    ELSE <<"dialog", "sling_model", "htl", "js_validation">>

SlingFailureDropsDialog(v, dialog) == Tuple(v, <<MsgFailedSling>>)
\* return ("Failed to generate Sling Model", dialog, "", "")
SlingFailure(v, dialog) == Tuple(v, <<MsgFailedSling, dialog>>)

\* return ("Failed to generate HTL", dialog, sling_model, "")
HtlFailure(v, dialog, sling_model) == Tuple(v, <<MsgFailedHtl, dialog, sling_model>>)

\* The validation of the parsed record and the success return.
Validate(v, rec) ==
    LET dialog == Strip(Get(rec, "dialog").s)
        sling_model == Strip(Get(rec, "sling_model").s)
        htl == Strip(Get(rec, "htl").s)
        js == IF Arity(v) = 4 THEN <<Strip(Get(rec, "js_validation").s)>> ELSE <<>>
    IN  IF dialog = <<>> THEN Tuple(v, <<MsgFailedDialog>>)
        ELSE IF sling_model = <<>> THEN SlingFailure(v, dialog)
        ELSE IF htl = <<>> THEN HtlFailure(v, dialog, sling_model)
        ELSE <<dialog, sling_model, htl>> \o js

\* The try block after the chat completion: what the script returns for an
\* outcome of the generator.
\*   [t |-> "raise"]   the chat completion raised
\*   [t |-> "none"]    the message content is None: json.loads raises TypeError
\*   [t |-> "text", raw, parse]  the content is the text raw; parse is what
\*       json.loads makes of it: "malformed" (JSONDecodeError), "value" (JSON,
\*       but no object: .get raises AttributeError) or "object" with the record
\*       rec, whose values are absent, null or a str.
Postprocess(v, out) ==
    CASE out.t = "raise" -> Tuple(v, <<MsgError("<APIError>")>>)
      [] out.t = "none" -> Tuple(v, <<MsgError("<TypeError>")>>)
      [] out.parse = "malformed" -> Tuple(v, <<MsgJsonError \o RawPreview(out.raw)>>)
      [] out.parse = "value" -> Tuple(v, <<MsgError("<AttributeError>")>>)
      [] OTHER ->
            IF \E k \in 1..Len(ReadKeys(v)) : Get(out.rec, ReadKeys(v)[k]).t # "str"
            THEN Tuple(v, <<MsgError("<AttributeError>")>>)
            ELSE Validate(v, out.rec)

(***************************************************************************)
(* Structural inference: the tab directive and the multifield note that    *)
(* ai_agent_new_2.py and ai_agent_new_4.py add to the request.             *)
(*                                                                         *)
(* The user context is a sequence of words separated by single spaces,     *)
(* without punctuation.  A phrase occurs in it as a substring: its first   *)
(* word may be the end of a word of the context and its last word the      *)
(* beginning of one.                                                       *)
(***************************************************************************)

\* context_lower = user_context.lower()
LowerAll(ctx) == [i \in 1..Len(ctx) |-> Lower(ctx[i])]

\* x is the beginning of the word w, for the words of the model
StartsWith(w, x) == w = x \/ <<w, x>> \in {<<"table", "tab">>, <<"tabs", "tab">>}

\* x is the end of the word w, for the words of the model
EndsWith(w, x) == w = x \/ <<w, x>> \in {<<"metadata", "data">>, <<"within", "in">>}

\* the phrase ph occurs in the lowercased words low at word i
PhraseAt(low, ph, i) ==
    /\ i + Len(ph) - 1 <= Len(low)
    /\ \A k \in 1..Len(ph) :
          IF Len(ph) = 1 THEN low[i] = ph[1]
          ELSE IF k = 1 THEN EndsWith(low[i], ph[1])
          ELSE IF k = Len(ph) THEN StartsWith(low[i + k - 1], ph[k])
          ELSE low[i + k - 1] = ph[k]

\* keyword in context_lower
ContainsPhrase(low, ph) == \E i \in 1..Len(low) : PhraseAt(low, ph, i)

\* the tab-related keywords of the script
TabKeywords(v) ==
    CASE v = "ai_agent_new_2" ->
            {<<"separate", "tab">>, <<"different", "tab">>, <<"tab1">>, <<"tab2">>,
             <<"tab", "1">>, <<"tab", "2">>, <<"in", "the", "tab">>,
             <<"configuration", "tab">>, <<"content", "tab">>, <<"properties", "tab">>,
             <<"settings", "tab">>, <<"data", "tab">>, <<"another", "tab">>}
      [] v = "ai_agent_new_4" ->
            {<<"separate", "tab">>, <<"different", "tab">>, <<"another", "tab">>,
             <<"in", "a", "tab">>, <<"tab", "with", "name">>, <<"tab", "name", "as">>,
             <<"tab", "named">>, <<"configuration", "tab">>, <<"content", "tab">>,
             <<"properties", "tab">>, <<"settings", "tab">>, <<"data", "tab">>,
             <<"additional", "tab">>}
      [] OTHER -> {}

\* if user_context: has_tab_mention = any(keyword in context_lower for keyword in [...])
HasTabMention(v, ctx) ==
    /\ ctx # <<>>
    /\ \E ph \in TabKeywords(v) : ContainsPhrase(LowerAll(ctx), ph)

\* the least number of a non-empty set of numbers, and the greatest
Least(S) == CHOOSE x \in S : \A y \in S : x <= y
Greatest(S) == CHOOSE x \in S : \A y \in S : x >= y

\* re.findall of r'tab (?:with )?name (?:as |is )?["\']?([A-Za-z\s]+)["\']?':
\* the group runs to the end of the context, so there is at most one match
MatchTabName(low) ==
    LET n == Len(low)
        \* the word after "tab [with] name" when the pattern matches at word i
        After(i) == IF i + 2 <= n /\ low[i + 1] = "with" /\ low[i + 2] = "name" /\ i + 3 <= n
                    THEN i + 3
                    ELSE IF i + 1 <= n /\ low[i + 1] = "name" /\ i + 2 <= n THEN i + 2
                    ELSE 0
        starts == {i \in 1..n : EndsWith(low[i], "tab") /\ After(i) # 0}
    IN  IF starts = {} THEN <<>>
        ELSE LET j == After(Least(starts))
                 k == IF low[j] \in {"as", "is"} /\ j < n THEN j + 1 ELSE j
             IN  <<SubSeq(low, k, n)>>

\* re.findall of r'in (?:a |the )?["\']?([A-Za-z\s]+)["\']? tab': the group is
\* greedy, it runs to the last " tab" of the context
MatchInTab(low) ==
    LET n == Len(low)
        tabs == {e \in 1..n : StartsWith(low[e], "tab")}
        starts == {i \in 1..n : EndsWith(low[i], "in") /\ \E e \in tabs : e >= i + 2}
    IN  IF starts = {} THEN <<>>
        ELSE LET i == Least(starts)
                 e == Greatest(tabs)
                 k == IF low[i + 1] \in {"a", "the"} /\ e >= i + 3 THEN i + 2 ELSE i + 1
             IN  <<SubSeq(low, k, e - 1)>>

\* re.findall of r'separate tab (?:with name |as )?["\']?([A-Za-z\s]+)?["\']?' for
\* word = "separate", and of the same pattern with "another": the pattern ends
\* with a space, so a word follows "tab", and the group runs to the end
MatchWordTab(low, word) ==
    LET n == Len(low)
        starts == {i \in 1..n : /\ EndsWith(low[i], word)
                                /\ i + 2 <= n
                                /\ low[i + 1] = "tab"}
    IN  IF starts = {} THEN <<>>
        ELSE LET j == Least(starts) + 2
                 k == IF low[j] = "with" /\ j + 2 <= n /\ low[j + 1] = "name" THEN j + 2
                      ELSE IF low[j] = "as" /\ j + 1 <= n THEN j + 1
                      ELSE j
             IN  <<SubSeq(low, k, n)>>

\* str.title() of a lowercased word
TitleWord(w) ==
    CASE w = "items" -> "Items"
      [] w = "data" -> "Data"
      [] w = "separate" -> "Separate"
      [] w = "a" -> "A"
      [] w = "the" -> "The"
      [] w = "named" -> "Named"
      [] w = "tab" -> "Tab"
      [] w = "put" -> "Put"
      [] w = "show" -> "Show"
      [] w = "title" -> "Title"
      [] w = "table" -> "Table"
      [] w = "with" -> "With"
      [] w = "name" -> "Name"
      [] w = "as" -> "As"
      [] w = "in" -> "In"
      [] w = "is" -> "Is"
      [] w = "to" -> "To"
      [] w = "add" -> "Add"
      [] w = "use" -> "Use"
      [] w = "fields" -> "Fields"
      [] w = "validation" -> "Validation"
      [] w = "required" -> "Required"
      [] OTHER -> w

\* m.strip().title()
Title(name) == [i \in 1..Len(name) |-> TitleWord(name[i])]

\* list(dict.fromkeys(xs)): the first occurrence of each element, in order
RECURSIVE Dedup(_)
Dedup(xs) ==
    IF xs = <<>> THEN <<>>
    ELSE LET init == Dedup(SubSeq(xs, 1, Len(xs) - 1))
             last == xs[Len(xs)]
         IN  IF \E i \in 1..Len(init) : init[i] = last THEN init ELSE Append(init, last)

\* detected_tabs of ai_agent_new_4.py: the names the four patterns capture, in
\* the order of the patterns, title-cased, without duplicates
DetectedTabs(ctx) ==
    LET low == LowerAll(ctx)
        matches == MatchTabName(low) \o MatchInTab(low)
                      \o MatchWordTab(low, "separate") \o MatchWordTab(low, "another")
    IN  Dedup([i \in 1..Len(matches) |-> Title(matches[i])])

\* ', '.join(names) for names that are strs
RECURSIVE JoinComma(_)
JoinComma(names) ==
    IF names = <<>> THEN <<>>
    ELSE IF Len(names) = 1 THEN names[1]
    ELSE names[1] \o <<", ">> \o JoinComma(Tail(names))

TabInstructionsAlways(v, ctx) == <<"TAB ORGANIZATION DETECTED">>
\* tab_instructions: "" unless a tab keyword is in the context; ai_agent.py and
\* ai_agent_new.py have no such section
TabInstructions(v, ctx) ==
    IF ~HasTabMention(v, ctx) THEN <<>>
    ELSE IF v = "ai_agent_new_2" THEN <<"TAB ORGANIZATION DETECTED">>
    ELSE <<"TAB ORGANIZATION DETECTED", "Detected tab names from context: ">>
            \o (IF DetectedTabs(ctx) # <<>> THEN JoinComma(DetectedTabs(ctx))
                ELSE <<"No explicit names found">>)

\* multifield_info.keys(): the names of the Multifield fields, each once, in
\* the order of their first occurrence
MultifieldNames(fields) ==
    LET multi == SelectSeq(fields, LAMBDA f : f.type = "Multifield")
    IN  Dedup([i \in 1..Len(multi) |-> multi[i].name])

\* component_field_names = [f['name'] for f in fields_list]
ComponentFieldNames(fields) == [i \in 1..Len(fields) |-> fields[i].name]

MultifieldNoteAlways(v, fields, ctx) == <<"MULTIFIELD STRUCTURE CLARIFICATION">>
\* multifield_context_note: "" unless a field is a Multifield and the context is
\* not empty; it names the Multifield fields and lists the component-level names
MultifieldNote(v, fields, ctx) ==
    IF v \in {"ai_agent_new_2", "ai_agent_new_4"} /\ MultifieldNames(fields) # <<>> /\ ctx # <<>>
    THEN <<"MULTIFIELD STRUCTURE CLARIFICATION", "You have a Multifield component named: ">>
            \o JoinComma(MultifieldNames(fields))
            \o <<"Component-level fields from dropdown: ">>
            \o JoinComma(ComponentFieldNames(fields))
    ELSE <<>>

\* {x if x else fallback}
OrElse(x, fallback) == IF x # <<>> THEN x ELSE fallback

\* full_prompt: the sections that depend on the call (the fixed instructions
\* between them are left out)
Prompt(v, fields, ctx, bundle, rf) ==
    [assembled |-> TRUE,
     dialog_template |-> rf.dialog_template,
     sling_mappings |-> rf.sling_mappings,
     htl_snippets |-> rf.htl_snippets,
     fields_json |-> fields,
     user |-> OrElse(ctx, IF v = "ai_agent" THEN <<"No additional requirements.">>
                          ELSE <<"No additional requirements - use standard AEM best practices.">>),
     tab_instructions |-> TabInstructions(v, ctx),
     multifield_note |-> MultifieldNote(v, fields, ctx),
     dialog_context |-> OrElse(bundle["dialog_context"],
                          IF v = "ai_agent"
                          THEN <<"No dialog examples found - use standard Granite UI structure">>
                          ELSE <<"Use standard Granite UI container/tabs structure">>),
     fields_context |-> OrElse(bundle["fields_context"],
                          IF v = "ai_agent" THEN <<"No field examples found">>
                          ELSE <<"Use standard Granite UI field types">>),
     sling_context |-> OrElse(bundle["sling_context"],
                          IF v = "ai_agent" THEN <<"No sling model examples found">>
                          ELSE <<"Use @Model with adaptables=Resource.class and @ValueMapValue">>),
     htl_context |-> OrElse(bundle["htl_context"],
                          IF v = "ai_agent" THEN <<"No HTL examples found">>
                          ELSE <<"Use data-sly-use for model binding">>),
     js_context |->
        CASE v = "ai_agent" ->
                OrElse(bundle["js_context"],
                       <<"No JS validation examples found - only include if explicitly needed">>)
          [] v \in {"ai_agent_new", "ai_agent_new_2"} ->
                IF bundle["js_context"] # <<>>
                   /\ (ContainsWord(ctx, "validation") \/ HasMultifield(fields))
                THEN bundle["js_context"] ELSE <<>>
          [] OTHER -> <<>>]

NoPrompt ==
    [assembled |-> FALSE,
     dialog_template |-> <<>>, sling_mappings |-> <<>>, htl_snippets |-> <<>>,
     fields_json |-> <<>>, user |-> <<>>, tab_instructions |-> <<>>, multifield_note |-> <<>>,
     dialog_context |-> <<>>, fields_context |-> <<>>, sling_context |-> <<>>,
     htl_context |-> <<>>, js_context |-> <<>>]

NoOutput == [t |-> "uncalled", raw |-> <<>>, parse |-> "", rec |-> <<>>]

NoGen ==
    [called |-> FALSE, session |-> "", run |-> 0, index |-> {}, refs |-> NoRefs,
     fields |-> <<>>, ctx |-> <<>>, trace |-> <<>>, fault |-> 0,
     bundle |-> <<>>, prompt |-> NoPrompt, output |-> NoOutput, result |-> <<>>]

\* One click of generate_btn in session s:
\* generate_sling_model_with_rag(fields_data, user_ctx), whose result (gen.result)
\* goes to the output components of the session.  out is the outcome of the code
\* generator and faults the queries that may raise; the query that raises
\* (fault; 0: none) is chosen here.  gen records the call: the session, the run
\* of the script, the index and the reference texts it read, and what it did.
Generate(s, user_ctx, out, faults) ==
    /\ Returned(build.outcome)
    /\ IF NoFields(fields_data)
       THEN gen' = [called |-> TRUE, session |-> s, run |-> build.calls,
                    index |-> collection, refs |-> refs,
                    fields |-> fields_data, ctx |-> user_ctx,
                    trace |-> <<>>, fault |-> 0, bundle |-> EmptyBundle(variant),
                    prompt |-> NoPrompt, output |-> NoOutput,
                    result |-> Tuple(variant, <<MsgNoFields>>)]
       ELSE LET types == TypeOrder(variant, fields_data, hash_order)
                plan == QueryPlan(variant, fields_data, user_ctx, types)
                ranked == RankedFrom(files_map(variant), collection, 1)
            IN  \E fault \in (0..Len(plan)) \cap faults :
                  LET bundle == Bundle(variant, ranked, plan, fault)
                  IN  gen' = [called |-> TRUE, session |-> s, run |-> build.calls,
                              index |-> collection, refs |-> refs,
                              fields |-> fields_data, ctx |-> user_ctx,
                              trace |-> CallTrace(plan, fault, out),
                              fault |-> fault,
                              bundle |-> bundle,
                              prompt |-> Prompt(variant, fields_data, user_ctx, bundle, refs),
                              output |-> out,
                              result |-> Postprocess(variant, out)]
    /\ UNCHANGED <<variant, files, collection, build, refs, hash_order, fields_data,
                   extra_context, field_list, status, context_status, procs>>

(***************************************************************************)
(* Gradio callbacks: add_field and reset_fields.  The callbacks of all the *)
(* sessions run in one process and share its module-level variables.       *)
(***************************************************************************)

\* new_entry: the line of the displayed list for one field (the backquotes
\* around the label and the name are left out, a closing token stands for the last)
NewEntry(selected_type, field_name, field_label) ==
    <<"**", selected_type, "** - Label: ">> \o field_label \o <<", Name: ">>
        \o field_name \o <<".">>

\* updated_list: the displayed list with one more entry
UpdatedList(current_list, new_entry) ==
    IF current_list = NoFieldsYet THEN <<"### Fields Added", "\n\n">> \o new_entry
    ELSE current_list \o <<"\n\n">> \o new_entry

\* the number of entries a displayed list shows
ShownCount(current_list) ==
    Cardinality({i \in 1..Len(current_list) : current_list[i] = "**"})

MsgEnterBoth == <<"Please enter both a field name and label.">>
MsgAdded(selected_type) == <<"Added ", selected_type, " field successfully.">>

NewFieldSwapped(selected_type, field_name, field_label) ==
    [type |-> selected_type, name |-> field_label, label |-> field_name]
\* the field add_field appends
NewField(selected_type, field_name, field_label) ==
    [type |-> selected_type, name |-> field_name, label |-> field_label]

\* One click of add_btn in session s: add_field(selected_type, field_name,
\* field_label, current_list) with the session's displayed list as current_list.
AddField(s, selected_type, field_name, field_label) ==
    /\ Returned(build.outcome)
    /\ IF field_name = <<>> \/ field_label = <<>>
       THEN /\ status' = [status EXCEPT ![s] = MsgEnterBoth]
            /\ UNCHANGED <<fields_data, field_list>>
       ELSE /\ Len(fields_data) < MaxFields
            /\ ShownCount(field_list[s]) < MaxFields
            /\ fields_data' = Append(fields_data, NewField(selected_type, field_name, field_label))
            /\ field_list' = [field_list EXCEPT ![s] =
                                 UpdatedList(@, NewEntry(selected_type, field_name, field_label))]
            /\ status' = [status EXCEPT ![s] = MsgAdded(selected_type)]
    /\ UNCHANGED <<variant, files, collection, build, refs, hash_order, extra_context,
                   context_status, gen, procs>>

ResetFieldsKeepsContext(s) ==
    /\ Returned(build.outcome)
    /\ fields_data' = <<>>
    /\ field_list' = [field_list EXCEPT ![s] = NoFieldsYet]
    /\ status' = [status EXCEPT ![s] = <<>>]
    /\ UNCHANGED <<variant, files, collection, build, refs, hash_order, extra_context,
                   context_status, gen, procs>>
\* One click of reset_btn in session s: reset_fields(), whose result clears the
\* displayed list, the status and the output components of the session.
ResetFields(s) ==
    /\ Returned(build.outcome)
    /\ fields_data' = <<>>
    /\ extra_context' = <<>>
    /\ field_list' = [field_list EXCEPT ![s] = NoFieldsYet]
    /\ status' = [status EXCEPT ![s] = <<>>]
    /\ UNCHANGED <<variant, files, collection, build, refs, hash_order, context_status, gen,
                   procs>>

MsgContextAdded(prompt) == <<"Context added successfully:\n> ">> \o prompt

\* Enter in the context box of session s: set_context_chat(prompt), whose
\* answer goes to context_status.
SetContextChat(s, prompt) ==
    /\ Returned(build.outcome)
    /\ extra_context' = prompt
    /\ context_status' = [context_status EXCEPT ![s] = MsgContextAdded(prompt)]
    /\ UNCHANGED <<variant, files, collection, build, refs, hash_order, fields_data,
                   field_list, status, gen, procs>>

\* the displayed list of a session that added the fields of a list, one by one
RECURSIVE Shown(_)
Shown(fields) ==
    IF fields = <<>> THEN NoFieldsYet
    ELSE LET f == fields[Len(fields)]
         IN  UpdatedList(Shown(SubSeq(fields, 1, Len(fields) - 1)),
                         NewEntry(f.type, f.name, f.label))

(***************************************************************************)
(* Initial states.                                                         *)
(***************************************************************************)
Missing == [exists |-> FALSE, len |-> 0]
Present(L) == [exists |-> TRUE, len |-> L]

UiStart ==
    /\ fields_data = <<>>
    /\ extra_context = <<>>
    /\ field_list = [s \in Sessions |-> NoFieldsYet]
    /\ status = [s \in Sessions |-> <<>>]
    /\ context_status = [s \in Sessions |-> <<>>]
    /\ gen = NoGen
    /\ procs = NoProcs

\* A fresh database directory; every knowledge file is missing or holds a text.
InitIndex ==
    /\ variant \in Variants
    /\ files \in [SourceNames(variant) ->
                    {Missing} \cup {Present(k * LenStep) : k \in 0..MaxLenSteps}]
    /\ collection = {}
    /\ build = NoBuild
    /\ refs = NoRefs
    /\ hash_order \in SetOrders(FieldTypeChoices)
    /\ UiStart

\* A fresh database directory; the first knowledge file holds a text of any length
\* up to MaxTextLen and the other files are missing.
InitChunk ==
    /\ variant \in Variants
    /\ \E L \in 0..MaxTextLen :
          files = [n \in SourceNames(variant) |->
                      IF n = files_map(variant)[1] THEN Present(L) ELSE Missing]
    /\ collection = {}
    /\ build = NoBuild
    /\ refs = NoRefs
    /\ hash_order \in SetOrders(FieldTypeChoices)
    /\ UiStart

NextIndex == BuildOrLoad

SpecIndex == InitIndex /\ [][NextIndex]_vars
SpecChunk == InitChunk /\ [][NextIndex]_vars

\* The field lists add_field can build: it appends any type of the dropdown with
\* any non-empty name and label, and never looks at the fields already there.
FieldChoices == [type : FieldTypeChoices, name : {<<"title">>}, label : {<<"Title">>}]
FieldLists == UNION {[1..n -> FieldChoices] : n \in 0..MaxFields}

\* what the user types into the context box
Contexts == {<<>>, <<"add", "validation">>, <<"validate">>, <<"Title", "is", "Required">>}

\* the values of a key of the generator's record: absent, null, or a str (blank,
\* or the text c with whitespace around it)
JsonValue(t, s) == [t |-> t, s |-> s]
JsonValues(c) ==
    {JsonValue("absent", <<>>), JsonValue("null", <<>>), JsonValue("str", <<" ">>),
     JsonValue("str", <<" ", c, "\n">>)}

Records ==
    [dialog : JsonValues("d"), sling_model : JsonValues("m"), htl : JsonValues("h"),
     js_validation : JsonValues("j")]

AbsentRecord ==
    [dialog |-> JsonValue("absent", <<>>), sling_model |-> JsonValue("absent", <<>>),
     htl |-> JsonValue("absent", <<>>), js_validation |-> JsonValue("absent", <<>>)]

GoodRecord ==
    [dialog |-> JsonValue("str", <<"d">>), sling_model |-> JsonValue("str", <<"m">>),
     htl |-> JsonValue("str", <<"h">>), js_validation |-> JsonValue("str", <<"j">>)]

Output(t, raw, parse, rec) == [t |-> t, raw |-> raw, parse |-> parse, rec |-> rec]
RawText(n) == [i \in 1..n |-> "r"]

ObjectOutputs(recs) == {Output("text", <<"{", "}">>, "object", r) : r \in recs}
MalformedOutputs == {Output("text", RawText(k * RawLenStep), "malformed", AbsentRecord) : k \in 0..MaxRawSteps}
OtherOutputs ==
    {Output("raise", <<>>, "", AbsentRecord), Output("none", <<>>, "", AbsentRecord),
     Output("text", <<"[", "]">>, "value", AbsentRecord)}

\* every outcome of the code generator
AllOutputs == ObjectOutputs(Records) \cup MalformedOutputs \cup OtherOutputs

\* a few outcomes of the code generator, for the behaviours that vary the retrieval
SomeOutputs ==
    ObjectOutputs({GoodRecord, [GoodRecord EXCEPT !.sling_model = JsonValue("absent", <<>>)]})
       \cup {Output("raise", <<>>, "", AbsentRecord)}

\* The script is up: build_or_load_chroma has built the collection from the
\* knowledge files fs, and session "s1" has added the fields of one of the lists.
InitApp(fs, lists, orders) ==
    /\ variant \in Variants
    /\ files \in fs
    /\ LET loop == BuildLoop(files_map(variant), files, 1)
       IN  /\ collection = AddAll({}, loop.plan)
           /\ build = [calls |-> 1, outcome |-> "built", prev |-> "none",
                       adds |-> Len(loop.plan), before |-> {}]
    /\ refs = LoadReferences(files)
    /\ hash_order \in orders
    /\ fields_data \in lists
    /\ extra_context = <<>>
    /\ field_list = [s \in Sessions |-> IF s = "s1" THEN Shown(fields_data) ELSE NoFieldsYet]
    /\ status = [s \in Sessions |-> <<>>]
    /\ context_status = [s \in Sessions |-> <<>>]
    /\ gen = NoGen
    /\ procs = NoProcs

AllMissing == [n \in SourceNames(variant) |-> Missing]
AllPresent == [n \in SourceNames(variant) |-> Present(LenStep)]

Init == InitApp({AllMissing, AllPresent}, FieldLists, SetOrders(FieldTypeChoices))

Next ==
    \E user_ctx \in Contexts, out \in SomeOutputs : Generate("s1", user_ctx, out, 0..5)

\* the behaviours that vary the retrieval: any field list, context and index fault
Spec == Init /\ [][Next]_vars

InitPost ==
    InitApp({AllPresent},
            {<<[type |-> "Text Field", name |-> <<"title">>, label |-> <<"Title">>]>>},
            {<<"Text Field", "Multifield">>})

NextPost == \E out \in AllOutputs : Generate("s1", <<>>, out, {0})

\* the behaviours that vary the outcome of the code generator
SpecPost == InitPost /\ [][NextPost]_vars

\* Two fields a user can add, a text field and a multifield, and the lists of
\* them in which no name is repeated.
TitleField == [type |-> "Text Field", name |-> <<"title">>, label |-> <<"Title">>]
ItemsField == [type |-> "Multifield", name |-> <<"items">>, label |-> <<"Items">>]
NamedLists ==
    {l \in UNION {[1..n -> {TitleField, ItemsField}] : n \in 1..MaxFields} :
        \A i, j \in 1..Len(l) : i # j => l[i].name # l[j].name}

\* user contexts without and with tab keywords and mentions of the multifield
TabContexts ==
    {<<>>, <<"add", "validation">>, <<"add", "title", "to", "items">>,
     <<"put", "items", "in", "separate", "tab">>, <<"show", "a", "data", "table">>,
     <<"use", "tab", "named", "Items">>, <<"fields", "in", "the", "tab">>,
     <<"in", "items", "tab", "with", "name", "items">>}

\* The dialogs the code generator may return, as far as their structure goes:
\* "[tab]" opens a tab, the name of a field places the field in the open tab, and
\* "[child]" puts the name that follows it inside the multifield.  The generator
\* is free in what it returns: the request only instructs it.
Dialogs ==
    {<<"[tab]", "title", "items">>,
     <<"[tab]", "title", "[tab]", "items">>,
     <<"[tab]", "title", "[tab]", "title", "items">>,
     <<"[tab]", "items">>,
     <<"[tab]", "title", "items", "[child]", "title">>,
     <<"[tab]", "title", "items", "[child]", "itemTitle", "[child]", "itemTitle">>,
     <<"[tab]", "title", "items", "[child]", "itemTitle", "[child]", "itemText">>}

DialogOutputs ==
    ObjectOutputs({[GoodRecord EXCEPT !.dialog = JsonValue("str", d)] : d \in Dialogs})

InitInfer == InitApp({AllPresent}, NamedLists, SetOrders(FieldTypeChoices))

NextInfer ==
    \E user_ctx \in TabContexts, out \in DialogOutputs : Generate("s1", user_ctx, out, {0})

\* the behaviours that vary the user context and the structure of the dialog
SpecInfer == InitInfer /\ [][NextInfer]_vars

\* Two processes start on a fresh database directory; every knowledge file is
\* missing or holds a text.
InitShared ==
    /\ variant \in {"ai_agent_new", "ai_agent_new_2"}
    /\ files \in [SourceNames(variant) -> {Missing, Present(LenStep)}]
    /\ collection = {}
    /\ build = NoBuild
    /\ refs = NoRefs
    /\ hash_order = <<"Text Field", "Multifield">>
    /\ UiStart

NextShared == \E p \in Procs : CountStep(p) \/ AddStep(p) \/ ReturnStep(p)

\* the behaviours of two concurrent calls of build_or_load_chroma
SpecShared == InitShared /\ [][NextShared]_vars

\* One outcome of the code generator of each kind: it raises, returns no
\* content, malformed text, JSON that is no object, and objects with a null,
\* with absent keys, with a blank value and with every artifact.
KindOutputs ==
    OtherOutputs
       \cup {Output("text", RawText(RawLenStep), "malformed", AbsentRecord)}
       \cup ObjectOutputs({GoodRecord, AbsentRecord,
                           [GoodRecord EXCEPT !.dialog = JsonValue("null", <<>>)],
                           [GoodRecord EXCEPT !.js_validation = JsonValue("null", <<>>)],
                           [GoodRecord EXCEPT !.htl = JsonValue("str", <<" ">>)],
                           [GoodRecord EXCEPT !.sling_model = JsonValue("absent", <<>>)]})

InitAny == InitApp({AllPresent}, FieldLists, {<<"Text Field", "Multifield">>})

NextAny ==
    \E user_ctx \in Contexts, out \in KindOutputs : Generate("s1", user_ctx, out, {0, 2})

\* the behaviours that vary the field list, the context and the kind of outcome
SpecAny == InitAny /\ [][NextAny]_vars
GoodOutput == Output("text", <<"{", "}">>, "object", GoodRecord)

\* what a user types into the name and the label box
NameInputs == {<<>>, <<"title">>}
LabelInputs == {<<>>, <<"Title">>}

InitUi == InitApp({AllPresent}, {<<>>}, {<<"Text Field", "Multifield">>})

NextUi ==
    \E s \in Sessions :
        \/ \E field_name \in NameInputs, field_label \in LabelInputs :
              AddField(s, "Text Field", field_name, field_label)
        \/ ResetFields(s)
        \/ Generate(s, <<>>, GoodOutput, {0})

\* the behaviours of two sessions that add fields, reset and generate
SpecUi == InitUi /\ [][NextUi]_vars

\* One session that adds fields, sets the context, resets and generates.
InitSession == InitApp({AllPresent}, {<<>>}, {<<"Text Field", "Multifield">>})

NextSession ==
    \/ \E f \in {TitleField, ItemsField} :
          \E field_name \in {<<>>, f.name}, field_label \in {<<>>, f.label} :
              AddField("s1", f.type, field_name, field_label)
    \/ ResetFields("s1")
    \/ SetContextChat("s1", <<"add", "validation">>)
    \/ Generate("s1", <<>>, GoodOutput, {0})

SpecSession == InitSession /\ [][NextSession]_vars

InitRun == InitApp({AllPresent}, {<<>>}, SetOrders(FieldTypeChoices))

NextRun ==
    \/ BuildOrLoad
    \/ \E f \in {TitleField, ItemsField} : AddField("s1", f.type, f.name, f.label)
    \/ Generate("s1", <<>>, GoodOutput, {0})

\* the behaviours of one session over several runs of the script
SpecRun == InitRun /\ [][NextRun]_vars

(***************************************************************************)
(* Claims about the Document Indexer.                                      *)
(***************************************************************************)
\* C1: build_or_load_chroma is idempotent.  A call that finds at least one chunk
\* in the collection issues no add and returns the collection as it was; and a
\* call that follows a call that returned, with the same sources, leaves count()
\* and the contents of the collection unchanged.
C1_Idempotent ==
    /\ (build.calls >= 1 /\ build.before # {}) =>
          /\ build.outcome = "loaded"
          /\ build.adds = 0
          /\ collection = build.before
    /\ (build.calls >= 2 /\ Returned(build.prev)) =>
          /\ Count(collection) = Count(build.before)
          /\ collection = build.before

\* a second call has run on a collection that the first call built
C1_Witness ==
    /\ build.calls >= 2
    /\ build.prev = "built"
    /\ Count(build.before) >= 2

\* C2: a build on an empty index never raises because a source file is missing
\* (an exception can only come from an add of the Similarity Index); when it
\* returns, each missing source has contributed zero chunks and each existing
\* source has all of its chunks in the collection; with every source missing the
\* call returns an empty collection.
C2_MissingSourceSkipped ==
    (build.calls >= 1 /\ build.before = {}) =>
        /\ build.outcome \in {"built", "add_raised"}
        /\ (\A n \in SourceNames(variant) : ~files[n].exists) =>
              (build.outcome = "built" /\ collection = {})
        /\ build.outcome = "built" =>
              \A n \in SourceNames(variant) :
                 /\ ~files[n].exists => DocsOf(collection, n) = {}
                 /\ files[n].exists =>
                       LET docs == SourceDocs(n, files[n].len)
                       IN  DocsOf(collection, n) = {docs[k] : k \in 1..Len(docs)}

\* a build returned with one source missing and another source's chunks added
C2_Witness ==
    /\ build.calls = 1
    /\ build.outcome = "built"
    /\ \E n \in SourceNames(variant) : ~files[n].exists
    /\ \E n \in SourceNames(variant) : files[n].exists /\ DocsOf(collection, n) # {}

\* the text of the one source of the single-source specification
TextLen == files[files_map(variant)[1]].len

\* C3: for a text of length L the build adds exactly the chunks
\* text[i*700 : i*700+800], i = 0 .. ceil(L/700)-1 (none when L = 0), and every
\* character position of the text lies in at least one chunk.
C3_ChunkOffsetsCover ==
    build.outcome = "built" =>
        /\ collection =
              {[id |-> ChunkId(files_map(variant)[1], i),
                source |-> files_map(variant)[1],
                lo |-> i * 700,
                hi |-> Min(i * 700 + 800, TextLen)] : i \in 0..(((TextLen + 699) \div 700) - 1)}
        /\ \A p \in 0..(TextLen - 1) : \E d \in collection : d.lo <= p /\ p < d.hi

\* a text of three chunks was chunked and added
C3_Witness ==
    /\ build.outcome = "built"
    /\ Count(collection) = 3
    /\ TextLen % 700 # 0

IsLastChunk(coll, d) == \A e \in coll : e.lo <= d.lo
IsNextToLastChunk(coll, d) ==
    /\ ~IsLastChunk(coll, d)
    /\ \A e \in coll : e.lo > d.lo => IsLastChunk(coll, e)

\* C4 as stated: every chunk except the last one has length exactly 800.
C4_AllButLastFull ==
    build.outcome = "built" =>
        \A d \in collection : ~IsLastChunk(collection, d) => d.hi - d.lo = 800

\* C4 as amended: every chunk except the last two has length exactly 800, and the
\* next-to-last chunk is shorter than 800 only when the last chunk is shorter
\* than the overlap of 100 characters (it then ends where the text ends).
C4_AllButLastTwoFull ==
    build.outcome = "built" =>
        \A d \in collection :
            ~IsLastChunk(collection, d) =>
                \/ d.hi - d.lo = 800
                \/ /\ IsNextToLastChunk(collection, d)
                   /\ d.hi = TextLen
                   /\ \E e \in collection :
                         IsLastChunk(collection, e) /\ e.hi - e.lo < 100

\* a text whose next-to-last chunk is cut short by the end of the text
C4_Witness ==
    /\ build.outcome = "built"
    /\ Count(collection) = 3
    /\ \E d \in collection : IsNextToLastChunk(collection, d) /\ d.hi - d.lo < 800

(***************************************************************************)
(* Claims about the Multi-Query Retriever.                                 *)
(***************************************************************************)

\* a query of the last call raised
SomeQueryRaised ==
    /\ gen.called
    /\ \E i \in 1..Len(gen.trace) : gen.trace[i].call = "query" /\ gen.trace[i].raised

\* what the Similarity Index returns for n_results = n, joined
RetrievedText(n) == JoinDocs(QueryDocs(RankedFrom(files_map(variant), collection, 1), n))

\* C5: if a Similarity Index query raises during retrieve_targeted_context, the
\* call does not raise (the generation goes on to call the generator) and returns
\* a bundle with every domain key, each the empty string, also for the domains
\* whose queries had succeeded before.
C5_RetrievalDegradesToEmpty ==
    SomeQueryRaised =>
        /\ DOMAIN gen.bundle = BundleKeys(variant)
        /\ \A k \in BundleKeys(variant) : gen.bundle[k] = <<>>
        /\ gen.trace[Len(gen.trace)] = GeneratorCall

\* a query raised after an earlier query had returned documents
C5_Witness ==
    /\ SomeQueryRaised
    /\ gen.trace[1].call = "query" /\ ~gen.trace[1].raised
    /\ RetrievedText(gen.trace[1].n) # <<>>

\* C6 as stated: when the query of one domain raises and the queries of the other
\* domains succeed, only that domain's entry is the empty string and the other
\* domains' entries keep their retrieved text.
C6_OnlyFailedDomainDegrades ==
    SomeQueryRaised =>
        \A i \in 1..Len(gen.trace) :
            gen.trace[i].call = "query" =>
                gen.bundle[gen.trace[i].domain] =
                    IF gen.trace[i].raised THEN <<>> ELSE RetrievedText(gen.trace[i].n)

\* C6 as amended: a query that raises does not stop the generation (the request is
\* assembled and the generator is called once), but it ends the retrieval: no
\* query is issued after it, and the entry of every queried domain, not only of
\* the one that failed, is the empty string.
C6_FailedQueryEndsRetrieval ==
    SomeQueryRaised =>
        /\ \A i, j \in 1..Len(gen.trace) :
              (gen.trace[i].raised /\ j > i) => gen.trace[j] = GeneratorCall
        /\ Cardinality({i \in 1..Len(gen.trace) : gen.trace[i] = GeneratorCall}) = 1
        /\ gen.prompt.assembled
        /\ \A i \in 1..Len(gen.trace) :
              gen.trace[i].call = "query" => gen.bundle[gen.trace[i].domain] = <<>>

\* the second query raised, the first had returned documents, later ones were due
C6_Witness ==
    /\ SomeQueryRaised
    /\ gen.trace[2].raised
    /\ RetrievedText(gen.trace[1].n) # <<>>
    /\ gen.output.t = "text"

(***************************************************************************)
(* Claims about the Prompt Assembler.                                      *)
(***************************************************************************)

\* json.loads returned a record and every key the script reads is a str or absent
ParsedRecord ==
    /\ gen.called
    /\ gen.output.t = "text"
    /\ gen.output.parse = "object"
    /\ \A k \in 1..Len(ReadKeys(variant)) : gen.output.rec[ReadKeys(variant)[k]].t \in {"str", "absent"}

\* the artifact the generator returned under a key: its text without the
\* surrounding whitespace, empty when the key is absent
Artifact(key) ==
    IF gen.output.rec[key].t = "str" THEN Strip(gen.output.rec[key].s) ELSE <<>>

RestEmpty(from) == \A i \in from..Len(gen.result) : gen.result[i] = <<>>

\* C7 as stated: the positions are (dialog, model code, template code, validation
\* code); with an empty dialog all the remaining positions are empty; with a
\* dialog and an empty model code the dialog is in the dialog position and the
\* remaining positions are empty; with dialog and model code and an empty
\* template code, the two are in their positions and the remaining are empty.
C7_PartialFailurePositions ==
    ParsedRecord =>
        /\ Artifact("dialog") = <<>> => RestEmpty(2)
        /\ (Artifact("dialog") # <<>> /\ Artifact("sling_model") = <<>>) =>
              (gen.result[1] = Artifact("dialog") /\ RestEmpty(2))
        /\ (Artifact("dialog") # <<>> /\ Artifact("sling_model") # <<>>
               /\ Artifact("htl") = <<>>) =>
              (gen.result[1] = Artifact("dialog") /\ gen.result[2] = Artifact("sling_model")
                 /\ RestEmpty(3))

\* a required artifact of the record is empty
IncompleteArtifact ==
    /\ ParsedRecord
    /\ \E k \in {"dialog", "sling_model", "htl"} : Artifact(k) = <<>>

InResult(x) == \E i \in 1..Len(gen.result) : gen.result[i] = x

RequiredKeys == <<"dialog", "sling_model", "htl">>

\* C8 as stated: on an IncompleteArtifact failure the result retains every
\* non-empty artifact the generator returned.
C8_EveryArtifactRetained ==
    IncompleteArtifact =>
        \A k \in 1..Len(ReadKeys(variant)) :
            Artifact(ReadKeys(variant)[k]) # <<>> => InResult(Artifact(ReadKeys(variant)[k]))

\* C8 as amended: on an IncompleteArtifact failure the result retains the
\* artifacts that precede the first empty required artifact in the order dialog,
\* model code, template code; the non-empty artifacts after it, and the
\* validation code, are not in the result.
C8_EarlierArtifactsRetained ==
    IncompleteArtifact =>
        LET first == CHOOSE j \in 1..3 :
                        /\ Artifact(RequiredKeys[j]) = <<>>
                        /\ \A i \in 1..(j - 1) : Artifact(RequiredKeys[i]) # <<>>
        IN  /\ \A i \in 1..(first - 1) : InResult(Artifact(RequiredKeys[i]))
            /\ \A k \in 1..Len(ReadKeys(variant)) :
                  (k > first /\ Artifact(ReadKeys(variant)[k]) # <<>>) =>
                      ~InResult(Artifact(ReadKeys(variant)[k]))

\* the template code is empty and the dialog and the model code are retained
C8_Witness ==
    /\ IncompleteArtifact
    /\ Artifact("htl") = <<>>
    /\ Artifact("dialog") # <<>> /\ InResult(Artifact("dialog"))
    /\ Artifact("sling_model") # <<>> /\ InResult(Artifact("sling_model"))

\* C9: with zero fields the call returns the NoFieldsProvided message at once: no
\* query is issued, no request is assembled, the generator is not called, and the
\* positions after the message are empty strings.
C9_NoFieldsImmediate ==
    (gen.called /\ gen.fields = <<>>) =>
        /\ Len(gen.result) = Arity(variant)
        /\ gen.result[1] = MsgNoFields
        /\ RestEmpty(2)
        /\ gen.trace = <<>>
        /\ ~gen.prompt.assembled

\* generate was clicked with an empty field list and a context
C9_Witness ==
    /\ gen.called
    /\ gen.fields = <<>>
    /\ gen.ctx # <<>>

\* json.loads raised JSONDecodeError on the generator's output
Malformed ==
    /\ gen.called
    /\ gen.output.t = "text"
    /\ gen.output.parse = "malformed"

\* C10: an unparseable generator output yields the JSON parsing error message
\* followed by the first 500 characters of the raw output (all of it when it is
\* shorter), never a "Failed to generate ..." message, and every other position
\* is empty.
C10_MalformedIsDistinct ==
    Malformed =>
        LET msg == gen.result[1]
            shown == SubSeq(msg, Len(MsgJsonError) + 1, Len(msg))
        IN  /\ Len(gen.result) = Arity(variant)
            /\ SubSeq(msg, 1, Len(MsgJsonError)) = MsgJsonError
            /\ Len(shown) <= 500
            /\ Len(shown) = Min(500, Len(gen.output.raw))
            /\ shown = SubSeq(gen.output.raw, 1, Len(shown))
            /\ msg \notin {MsgFailedDialog, MsgFailedSling, MsgFailedHtl}
            /\ RestEmpty(2)

\* a malformed output longer than 500 characters was reported
C10_Witness ==
    /\ Malformed
    /\ Len(gen.output.raw) > 500

\* json.loads returned a record (a JSON object)
ObjectParsed ==
    /\ gen.called
    /\ gen.output.t = "text"
    /\ gen.output.parse = "object"

FailureMessages ==
    {MsgFailedDialog, MsgFailedSling, MsgFailedHtl, MsgError("<AttributeError>")}

\* C11: when the record has no js_validation key and its dialog, model code and
\* template code are non-empty, the call succeeds with these three artifacts and
\* the empty string as validation code; when dialog, sling_model or htl is absent
\* the result starts with a failure message and is never the success tuple, and it names the first absent or empty artifact when
\* every key read is a str or absent.
C11_AbsentFieldDefaults ==
    ObjectParsed =>
        /\ ( /\ gen.output.rec["js_validation"].t = "absent"
             /\ \A i \in 1..3 : /\ gen.output.rec[RequiredKeys[i]].t = "str"
                                /\ Artifact(RequiredKeys[i]) # <<>> ) =>
              gen.result = Tuple(variant, <<Artifact("dialog"), Artifact("sling_model"),
                                           Artifact("htl")>>)
        /\ \A i \in 1..3 :
              gen.output.rec[RequiredKeys[i]].t = "absent" =>
                 /\ gen.result[1] \in FailureMessages
                 /\ gen.result # Tuple(variant, <<Artifact("dialog"), Artifact("sling_model"),
                                                 Artifact("htl"), Artifact("js_validation")>>)
                 /\ ( /\ ParsedRecord
                      /\ \A j \in 1..(i - 1) : Artifact(RequiredKeys[j]) # <<>> ) =>
                        gen.result[1] = <<MsgFailedDialog, MsgFailedSling, MsgFailedHtl>>[i]

\* a record without js_validation was accepted, and one without htl was refused
C11_Witness ==
    /\ ObjectParsed
    /\ gen.output.rec["js_validation"].t = "absent"
    /\ Artifact("dialog") # <<>> /\ Artifact("sling_model") # <<>> /\ Artifact("htl") # <<>>
    /\ gen.result[1] = Artifact("dialog")

(***************************************************************************)
(* Claims about the structural inference.                                  *)
(***************************************************************************)

\* the scripts that add a tab directive and a multifield note to the request
InferringVariants == {"ai_agent_new_2", "ai_agent_new_4"}

\* the call succeeded: the result is the generator's artifacts
Succeeded ==
    /\ ObjectParsed
    /\ ParsedRecord
    /\ Artifact("dialog") # <<>>
    /\ gen.result[1] = Artifact("dialog")

\* the tabs of a dialog, each as the sequence of the field names placed in it
RECURSIVE TabsOf(_)
TabsOf(d) ==
    IF d = <<>> THEN <<>>
    ELSE LET init == TabsOf(SubSeq(d, 1, Len(d) - 1))
             last == d[Len(d)]
         IN  IF last = "[tab]" THEN Append(init, <<>>)
             ELSE IF Len(d) >= 2 /\ d[Len(d) - 1] = "[child]" THEN init
             ELSE IF last = "[child]" \/ init = <<>> THEN init
             ELSE [init EXCEPT ![Len(init)] = Append(@, last)]

\* the names of the children a dialog puts inside the multifield
ChildrenOf(d) ==
    LET at == SelectSeq([i \in 1..Len(d) |-> i], LAMBDA i : i >= 2 /\ d[i - 1] = "[child]")
    IN  [k \in 1..Len(at) |-> d[at[k]]]

RECURSIVE SumLen(_)
SumLen(ss) == IF ss = <<>> THEN 0 ELSE Len(Head(ss)) + SumLen(Tail(ss))

\* C12 as stated: the tab assignments of a generated component put every field
\* name in exactly one tab: the tabs' member counts add up to the number of
\* fields, no name is twice in a tab or in two tabs, and every member is a field.
C12_TabCompleteness ==
    (Succeeded /\ variant \in InferringVariants) =>
        LET tabs == TabsOf(gen.result[1])
            members == [k \in 1..Len(tabs) |-> {tabs[k][i] : i \in 1..Len(tabs[k])}]
        IN  /\ SumLen(tabs) = Len(gen.fields)
            /\ \A k \in 1..Len(tabs) : Cardinality(members[k]) = Len(tabs[k])
            /\ \A j, k \in 1..Len(tabs) : j # k => members[j] \cap members[k] = {}
            /\ \A i \in 1..Len(gen.fields) :
                  \E k \in 1..Len(tabs) : gen.fields[i].name[1] \in members[k]

\* C13 as stated: when a field is a Multifield and its children come from the
\* user context, no child name of the generated component equals a top-level
\* field name or the name of another child.
C13_ChildNamesUnique ==
    (Succeeded /\ variant \in InferringVariants /\ HasMultifield(gen.fields) /\ gen.ctx # <<>>) =>
        LET children == ChildrenOf(gen.result[1])
        IN  /\ \A k \in 1..Len(children), i \in 1..Len(gen.fields) :
                  children[k] # gen.fields[i].name[1]
            /\ \A j, k \in 1..Len(children) : j # k => children[j] # children[k]

\* the context holds none of the tab keywords of the script
NoTabKeyword ==
    \A ph \in TabKeywords(variant) : ~ContainsPhrase(LowerAll(gen.ctx), ph)

\* C14: when the context holds no tab keyword (the empty context holds none), no
\* tab directive is in the request; when no field is a Multifield or the context
\* is empty, no multifield note is in the request; and in both cases the
\* request is assembled and the generator is called: inference does not raise.
C14_InferenceDefaults ==
    (gen.called /\ gen.fields # <<>>) =>
        /\ NoTabKeyword => gen.prompt.tab_instructions = <<>>
        /\ (~HasMultifield(gen.fields) \/ gen.ctx = <<>>) => gen.prompt.multifield_note = <<>>
        /\ gen.prompt.assembled
        /\ gen.trace[Len(gen.trace)] = GeneratorCall

\* ai_agent_new_4.py got a context without tab keyword and fields without
\* Multifield, and another script than ai_agent.py got the empty context
C14_Witness ==
    /\ gen.called
    /\ variant = "ai_agent_new_4"
    /\ gen.ctx = <<"add", "validation">>
    /\ gen.fields = <<TitleField>>
    /\ gen.prompt.assembled
    /\ gen.prompt.tab_instructions = <<>>
    /\ gen.prompt.multifield_note = <<>>

(***************************************************************************)
(* Claims about the determinism of the assembly.                           *)
(***************************************************************************)

\* the texts of the queries a call issued, in order
QueryTexts(trace) ==
    LET qs == SelectSeq(trace, LAMBDA c : c.call = "query")
    IN  [i \in 1..Len(qs) |-> qs[i].text]

\* C15: two invocations of generate_sling_model_with_rag with the same field
\* list, the same user context, the same index contents and the same reference
\* texts issue identical query texts and assemble an identical full_prompt.
C15_AssemblyDeterministic ==
    [][(/\ gen.called /\ gen'.called
        /\ gen'.fields = gen.fields /\ gen'.ctx = gen.ctx
        /\ gen'.index = gen.index /\ gen'.refs = gen.refs
        /\ gen'.fault = gen.fault)
       => (/\ QueryTexts(gen'.trace) = QueryTexts(gen.trace)
           /\ gen'.prompt = gen.prompt)]_vars

(***************************************************************************)
(* Claims about the validation query and the returned bundle.              *)
(***************************************************************************)

JsVariants == {"ai_agent_new", "ai_agent_new_2"}

\* the last call reached retrieve_targeted_context (the field list was not empty)
Retrieving == gen.called /\ ~NoFields(gen.fields)

\* the last call issued a query for the validation domain
JsIssued ==
    \E i \in 1..Len(gen.trace) :
        gen.trace[i].call = "query" /\ gen.trace[i].domain = "js_context"

\* a query of another domain raised in the last call
OtherQueryRaised ==
    \E i \in 1..Len(gen.trace) :
        /\ gen.trace[i].call = "query" /\ gen.trace[i].raised
        /\ gen.trace[i].domain # "js_context"

\* the user context has a validation keyword or some field is a Multifield
ValidationIntent ==
    \/ \E i \in 1..Len(gen.ctx) : Lower(gen.ctx[i]) \in {"validation", "validate", "required"}
    \/ \E i \in 1..Len(gen.fields) : gen.fields[i].type = "Multifield"

\* C16 as stated: in ai_agent_new.py and ai_agent_new_2.py the validation query
\* is issued if and only if the context has a validation keyword or some field
\* is a Multifield; otherwise it is not issued and js_context is empty.
C16_JsQueryIffIntent ==
    (Retrieving /\ variant \in JsVariants)
    => /\ JsIssued <=> ValidationIntent
       /\ ~ValidationIntent => gen.bundle["js_context"] = <<>>

\* C16, amended: the validation query is issued if and only if the context has
\* a validation keyword or some field is a Multifield, and no earlier query of
\* the call raised; otherwise it is not issued and js_context is empty.
C16_JsQueryIffIntentAndNoFailure ==
    (Retrieving /\ variant \in JsVariants)
    => /\ JsIssued <=> (ValidationIntent /\ ~OtherQueryRaised)
       /\ ~(ValidationIntent /\ ~OtherQueryRaised) => gen.bundle["js_context"] = <<>>

\* a call whose only reason for the validation query is the word 'required'
C16_Witness ==
    /\ Retrieving /\ variant \in JsVariants /\ JsIssued
    /\ gen.bundle["js_context"] # <<>>
    /\ ~HasMultifield(gen.fields)
    /\ ContainsWord(gen.ctx, "required")

\* the knowledge domains of a script
DomainKeys ==
    IF variant = "ai_agent_new_4"
    THEN {"dialog_context", "sling_context", "htl_context", "fields_context"}
    ELSE {"dialog_context", "sling_context", "htl_context", "fields_context", "js_context"}

\* a str of the model: a sequence of text tokens, empty for the empty str
IsStr(x) == x = <<>> \/ (Len(x) > 0 /\ \A i \in 1..Len(x) : x[i] \in STRING)

\* C17: on every return path of retrieve_targeted_context the bundle has every
\* knowledge-domain key and each value is a str, the empty str when nothing was
\* retrieved (empty index, or a failure that was caught).
C17_BundleTotal ==
    Retrieving
    => /\ DOMAIN gen.bundle = DomainKeys
       /\ \A k \in DomainKeys : IsStr(gen.bundle[k])
       /\ (gen.index = {} \/ gen.fault # 0) => \A k \in DomainKeys : gen.bundle[k] = <<>>

\* a failure that was caught after a query had returned documents
C17_Witness ==
    /\ Retrieving /\ gen.index # {} /\ gen.fault > 1
    /\ gen.trace[1].call = "query" /\ ~gen.trace[1].raised

(***************************************************************************)
(* Claims about the reference files.                                       *)
(***************************************************************************)

\* the reference files read at startup, by the name of the text they are read into
ReferenceFile ==
    [dialog_template |-> "dialog_template", sling_mappings |-> "sling_examples",
     htl_snippets |-> "htl_snippets"]

MissingReferences == {r \in DOMAIN ReferenceFile : ~files[ReferenceFile[r]].exists}

\* C18: when exactly one of the reference files read at startup is missing,
\* a startup that no fault of the index interrupts reaches the interface with
\* the text of that file empty and the texts of the files that were read
\* available.
C18_MissingReferenceIsolated ==
    (Returned(build.outcome) /\ Cardinality(MissingReferences) = 1)
    => \A r \in DOMAIN ReferenceFile :
          refs[r] = IF r \in MissingReferences THEN <<>>
                    ELSE RefText(files, ReferenceFile[r])

(***************************************************************************)
(* Claims about the field list of the interface.                           *)
(***************************************************************************)

\* C19: after any sequence of add_field and reset_fields calls the names of
\* the fields in fields_data are pairwise distinct.
C19_FieldNamesDistinct ==
    \A i, j \in 1..Len(fields_data) :
        fields_data[i].name = fields_data[j].name => i = j

\* The fields a displayed list shows, read back from the entries add_field
\* wrote: of each entry the type, the label and the name.  The list of a session
\* shows the fields the session added since it was loaded or reset.
EntryAt(current_list, i) ==
    LET n == Least({j \in (i + 3)..Len(current_list) : current_list[j] = ", Name: "})
        e == Least({j \in (n + 1)..Len(current_list) : current_list[j] = "."})
    IN  [type |-> current_list[i + 1],
         name |-> SubSeq(current_list, n + 1, e - 1),
         label |-> SubSeq(current_list, i + 3, n - 1)]

ShownEntries(current_list) ==
    {EntryAt(current_list, i) :
        i \in {j \in 1..Len(current_list) : current_list[j] = "**"}}

Holds(fields, f) == \E i \in 1..Len(fields) : fields[i] = f

\* C20: when two sessions interleave add_field, reset_fields and generate, a
\* field added in one session never appears in the request generated for the
\* other session (every field of a session's request is a field the session
\* added), and a reset in one session never removes the other session's fields.
C20_FieldListOwnedBySession ==
    [][/\ gen' # gen =>
            \A i \in 1..Len(gen'.fields) :
                gen'.fields[i] \in ShownEntries(field_list[gen'.session])
       /\ \A s \in Sessions :
            ResetFields(s) =>
                \A t \in Sessions \ {s} :
                    \A f \in ShownEntries(field_list[t]) : Holds(fields_data', f)]_vars
(***************************************************************************)
(* Claims about the chunk ids and the histories of builds.                 *)
(***************************************************************************)

\* the documents of the add calls the last call of build_or_load_chroma issued,
\* in the order of the calls (the last one may have raised)
IssuedAdds ==
    IF build.outcome \in {"built", "add_raised", "open_raised"}
    THEN SubSeq(BuildLoop(files_map(variant), files, 1).plan, 1, build.adds)
    ELSE <<>>

\* the number of documents of the same source that precede the k-th of docs
SequenceNumber(docs, k) ==
    Cardinality({j \in 1..(k - 1) : docs[j].source = docs[k].source})

\* C21: every chunk added during one build has the id "{sourceTag}_{i}" with i
\* its sequence number within its source, and the ids of the chunks added in
\* one build are pairwise distinct.
C21_ChunkIdentity ==
    LET issued == IssuedAdds
    IN  /\ \A k \in 1..Len(issued) :
              issued[k].id = issued[k].source \o "_" \o ToString(SequenceNumber(issued, k))
        /\ \A j, k \in 1..Len(issued) : issued[j].id = issued[k].id => j = k

\* a build added two chunks of each of two sources
C21_Witness ==
    /\ build.outcome = "built"
    /\ \E j, k \in 1..Len(IssuedAdds) :
          /\ IssuedAdds[j].source # IssuedAdds[k].source
          /\ SequenceNumber(IssuedAdds, j) = 1
          /\ SequenceNumber(IssuedAdds, k) = 1
\* the processes that entered the build phase and issued add calls
Builders == {p \in Procs : procs[p].pc \in {"building", "built"} /\ procs[p].adds > 0}

\* C22: when two invocations of build_or_load_chroma run concurrently against
\* the same empty persistent collection, at most one of them enters the build
\* phase and issues add calls.
C22_BuildOnce == Cardinality(Builders) <= 1
(***************************************************************************)
(* Claims about the order of the calls of one generation.                  *)
(***************************************************************************)

\* the positions of the calls to the code generator in the trace of the last call
GeneratorCalls == {i \in 1..Len(gen.trace) : gen.trace[i].call = "generator"}

\* C23: within one generate_sling_model_with_rag call with at least one field,
\* every query of the Similarity Index and the assembly of the request come
\* before the call of the code generator, and the generator is called at most
\* once (no retry after a failure).
C23_AssembleThenGenerateOnce ==
    Retrieving
    => /\ Cardinality(GeneratorCalls) <= 1
       /\ \A g \in GeneratorCalls :
             /\ \A i \in 1..Len(gen.trace) : gen.trace[i].call = "query" => i < g
             /\ gen.prompt.assembled

\* a call that issued queries and whose generator call raised
C23_Witness ==
    /\ Retrieving
    /\ gen.output.t = "raise"
    /\ Cardinality(GeneratorCalls) = 1
    /\ \E i \in 1..Len(gen.trace) : gen.trace[i].call = "query"
(***************************************************************************)
(* Claims about the sections of the request.                               *)
(***************************************************************************)

\* C24: in the scripts that have it (ai_agent_new_2.py, ai_agent_new_4.py) the
\* section multifield_context_note is in the assembled request if and only if
\* at least one field has the type 'Multifield' and the user context is not empty.
C24_MultifieldNoteIff ==
    (Retrieving /\ variant \in InferringVariants)
    => (gen.prompt.multifield_note # <<>>
        <=> /\ \E i \in 1..Len(gen.fields) : gen.fields[i].type = "Multifield"
            /\ gen.ctx # <<>>)

\* a request with the section, and the field list has a second field that is
\* no Multifield
C24_Witness ==
    /\ Retrieving /\ variant \in InferringVariants
    /\ gen.prompt.multifield_note # <<>>
    /\ \E i \in 1..Len(gen.fields) : gen.fields[i].type # "Multifield"
\* the words of the contexts, lowercased
Vocabulary == UNION {{Lower(c[i]) : i \in 1..Len(c)} : c \in TabContexts}

RECURSIVE Glue(_)
Glue(ws) == IF ws = <<>> THEN "" ELSE Head(ws) \o Glue(Tail(ws))

\* A tab node name as the request describes it (properties, items,
\* additionalDetails): the display title in lower camel case.
LowerCamel(title) ==
    LET first == CHOOSE w \in Vocabulary : TitleWord(w) = title[1]
    IN  first \o Glue(Tail(title))

\* the name, as a run of tokens, is in the text
Mentions(text, name) ==
    \E i \in 1..(Len(text) - Len(name) + 1) : SubSeq(text, i, i + Len(name) - 1) = name

\* C25: when tab keywords are detected, detected_tabs has no duplicates and no
\* empty name, keeps each name at the position of its first occurrence in the
\* sequence of matches, and each name is title-cased for the display title and
\* lower-camel-cased for the tab node name.
C25_DetectedTabNames ==
    (Retrieving /\ variant = "ai_agent_new_4" /\ HasTabMention(variant, gen.ctx))
    => LET low == LowerAll(gen.ctx)
           matches == MatchTabName(low) \o MatchInTab(low)
                         \o MatchWordTab(low, "separate") \o MatchWordTab(low, "another")
           tabs == DetectedTabs(gen.ctx)
           first(k) == Least({i \in 1..Len(matches) : Title(matches[i]) = tabs[k]})
       IN  /\ \A j, k \in 1..Len(tabs) : tabs[j] = tabs[k] => j = k
           /\ \A k \in 1..Len(tabs) : tabs[k] # <<>>
           /\ \A i \in 1..Len(matches) : \E k \in 1..Len(tabs) : tabs[k] = Title(matches[i])
           /\ \A j, k \in 1..Len(tabs) : j < k => first(j) < first(k)
           /\ \A k \in 1..Len(tabs) :
                 /\ Mentions(gen.prompt.tab_instructions, tabs[k])
                 /\ Mentions(gen.prompt.tab_instructions, <<LowerCamel(tabs[k])>>)
\* C26: after build_or_load_chroma returns, all the chunks of every source file
\* that exists are in the index, for every history of calls, a build that an
\* exception interrupted after some adds and a later call included.
C26_ReturnedIndexComplete ==
    Returned(build.outcome)
    => \A n \in SourceNames(variant) :
          files[n].exists =>
             LET docs == SourceDocs(n, files[n].len)
             IN  \A k \in 1..Len(docs) : docs[k] \in collection
\* C27: in ai_agent_new.py and ai_agent_new_2.py, whenever the validation
\* domain was queried and gave a text that is not empty, the text is in the
\* assembled request: the condition of the retrieval and the condition of the
\* interpolation agree.
C27_RetrievedJsInterpolated ==
    (Retrieving /\ variant \in JsVariants /\ gen.bundle["js_context"] # <<>>)
    => gen.prompt.js_context = gen.bundle["js_context"]
(***************************************************************************)
(* Claims about the callbacks of the interface.                            *)
(***************************************************************************)

\* C28: after reset_fields the field list and the stored extra context are
\* empty, so a generate request issued before any further successful add_field
\* returns the message for no fields without a query and without a call of the
\* generator; after k successful add_field calls that follow a reset the list
\* holds exactly those k fields in the order of the calls.  (A step that clears
\* a status that was not empty is a reset; the displayed list of the session
\* shows the fields added since the reset.)
C28_ResetThenAdd ==
    /\ [](field_list["s1"] = Shown(fields_data))
    /\ [][/\ (status'["s1"] = <<>> /\ status["s1"] # <<>>)
             => (fields_data' = <<>> /\ extra_context' = <<>>)
          /\ (gen' # gen /\ fields_data = <<>>)
             => /\ gen'.result = Tuple(variant, <<MsgNoFields>>)
                /\ gen'.trace = <<>>]_vars

\* a context was set and then cleared by a reset, two fields were added after
\* the reset, and the last generate request found no field
C28_Witness ==
    /\ context_status["s1"] # <<>>
    /\ extra_context = <<>>
    /\ fields_data = <<ItemsField, TitleField>>
    /\ gen.called /\ gen.fields = <<>> /\ gen.trace = <<>>
\* what a user can put into the three inputs of add_field
TypeInputs == FieldTypeChoices
AllNameInputs == {<<>>, <<"title">>, <<"items">>}
AllLabelInputs == {<<>>, <<"Title">>, <<"Items">>}

\* C29: add_field with an empty name or an empty label returns a warning and
\* leaves fields_data and the displayed list unchanged; with both not empty it
\* appends exactly one field with the given type, name and label and changes
\* nothing else (its other results are the new displayed list and the status).
C29_AddFieldFrame ==
    [][\A t \in TypeInputs, n \in AllNameInputs, l \in AllLabelInputs :
          AddField("s1", t, n, l) =>
             /\ (n = <<>> \/ l = <<>>) =>
                   /\ status'["s1"] = <<"Please enter both a field name and label.">>
                   /\ fields_data' = fields_data
                   /\ field_list' = field_list
             /\ (n # <<>> /\ l # <<>>) =>
                   /\ Len(fields_data') = Len(fields_data) + 1
                   /\ SubSeq(fields_data', 1, Len(fields_data)) = fields_data
                   /\ fields_data'[Len(fields_data')] = [type |-> t, name |-> n, label |-> l]
             /\ extra_context' = extra_context
             /\ collection' = collection
             /\ refs' = refs
             /\ gen' = gen
             /\ context_status' = context_status
             /\ \A s \in Sessions \ {"s1"} :
                   field_list'[s] = field_list[s] /\ status'[s] = status[s]]_vars

\* a field was added and a later call with an empty input left the list as it was
C29_Witness ==
    /\ status["s1"] = MsgEnterBoth
    /\ fields_data = <<ItemsField>>
    /\ field_list["s1"] = Shown(<<ItemsField>>)
\* C30: for every non-empty field list and every user context,
\* generate_sling_model_with_rag returns, whatever the generator does (raises,
\* returns malformed output, a record with missing fields or with null fields),
\* a tuple of the fixed arity of the script (3 in ai_agent_new_4.py, 4 in the
\* others) whose elements are all strs.
C30_FixedArityOfStrs ==
    (gen.called /\ gen.fields # <<>>)
    => /\ DOMAIN gen.result = 1..(IF variant = "ai_agent_new_4" THEN 3 ELSE 4)
       /\ \A i \in DOMAIN gen.result : IsStr(gen.result[i])

\* the generator returned a record whose dialog is null, and the call returned
\* its message for an error
C30_Witness ==
    /\ gen.called /\ gen.fields # <<>>
    /\ gen.output.parse = "object" /\ gen.output.rec.dialog.t = "null"
    /\ gen.result[1] = <<"Error generating code: ", "<AttributeError>">>

====
